---- MODULE Spec2Model ----
(***************************************************************************)
(* A model of adafruit_midi: the RingBuffer of adafruit_midi/__init__.py,  *)
(* the MIDI port (receive, send, the three-byte helpers, the channel       *)
(* setters) and the NoteOff message of adafruit_midi/note_off.py.          *)
(*                                                                         *)
(* Python's None is the empty tuple <<>> and a present value x is <<x>>.   *)
(* A raised exception is the name of its class in an "err" field; "none"   *)
(* means the call returned.                                                *)
(***************************************************************************)
EXTENDS Integers, Sequences, FiniteSets, TLC

VARIABLES
    in_buf,         \* MIDI._in_buf: the RingBuffer [buf, start, current_size]
    in_channel,     \* MIDI._in_channel as stored by the setter
    out_channel,    \* MIDI._out_channel
    outbuf,         \* MIDI._outbuf, the helpers' 4-byte packet buffer
    skipped_bytes,  \* MIDI._skipped_bytes
    wire,           \* bytes pending in the transport midi_in, oldest first
    writes,         \* the midi_out.write(packet, num) calls of the last operation
    last,           \* what the last operation was given and what it returned or raised
    appended,       \* history: every byte a successful append stored
    popped          \* history: every byte a successful popleft returned

vars == <<in_buf, in_channel, out_channel, outbuf, skipped_bytes, wire, writes,
          last, appended, popped>>

None == <<>>
Some(x) == <<x>>

Min(a, b) == IF a < b THEN a ELSE b

\* ------------------------------------------------------------------ bounds

\* capacity of the ring in the RingBuffer specification
RingSize == 3
\* number of successful appends explored in the RingBuffer specification
MaxOps == 5
\* in_buf_size of the port in the receive specification
InBufSize == 4
\* number of bytes the transport delivers in one behaviour
MaxWire == 5
\* longest message sequence handed to send()
MaxSeq == 2

\* bytes the transport and the ring's callers supply: two data bytes (0x3C,
\* 0x40), Note Off on channel 1 (0x81), an unregistered status byte (0xFF)
ByteSamples == {60, 64, 129, 255}

\* --------------------------------------------------------------- RingBuffer

RingBuffer(size) ==
    [buf |-> [i \in 0..(size - 1) |-> 0], start |-> 0, current_size |-> 0]

\* len(self._buf)
RingCap(rb) == Cardinality(DOMAIN rb.buf)

\* __len__
RingLen(rb) == rb.current_size

\* the guard of append: the buffer is full
AppendFullIgnored(rb) == FALSE
RingAppendFull(rb) == RingCap(rb) = rb.current_size

\* append, past its guard
AppendNoStart(rb, value) ==
    [rb EXCEPT !.buf[rb.current_size % RingCap(rb)] = value,
               !.current_size = @ + 1]
RingAppend(rb, value) ==
    [rb EXCEPT !.buf[(rb.start + rb.current_size) % RingCap(rb)] = value,
               !.current_size = @ + 1]

\* the guard of popleft: the buffer is empty
RingPopEmpty(rb) == rb.current_size = 0

\* popleft, past its guard: the value returned and the buffer left
RingPopValue(rb) == rb.buf[rb.start]
PopLeftNoWrap(rb) ==
    [rb EXCEPT !.start = rb.start + 1, !.current_size = @ - 1]
RingPopLeft(rb) ==
    [rb EXCEPT !.start = (rb.start + 1) % RingCap(rb),
               !.current_size = @ - 1]

\* __getitem__ with an integer index: no comparison with the length
GetItemNoStart(rb, index) == rb.buf[index % RingCap(rb)]
RingGetItem(rb, index) == rb.buf[(rb.start + index) % RingCap(rb)]

\* __getitem__ with a slice: length bytes, the i-th read at index step*i
RingSlice(rb, start, stop, step) ==
    LET length == (stop - start) \div step
    IN  [i \in 1..(IF length > 0 THEN length ELSE 0) |-> RingGetItem(rb, step * (i - 1))]

\* the logical content, oldest byte first, as the successive poplefts return it
RECURSIVE RingContents(_)
RingContents(rb) ==
    IF RingPopEmpty(rb) THEN <<>>
    ELSE <<RingPopValue(rb)>> \o RingContents(RingPopLeft(rb))

\* ------------------------------------------------------ integer operators

\* Python's a & b and a | b on the low eight bits: b is a mask or a byte in
\* 0..255, a any integer (two's complement, so a & b = (a mod 256) & b)
RECURSIVE BitAndNat(_, _, _)
BitAndNat(a, b, bits) ==
    IF bits = 0 THEN 0
    ELSE (IF a % 2 = 1 /\ b % 2 = 1 THEN 1 ELSE 0)
         + 2 * BitAndNat(a \div 2, b \div 2, bits - 1)
BitAnd(a, b) == BitAndNat(a % 256, b, 8)

RECURSIVE BitOrNat(_, _, _)
BitOrNat(a, b, bits) ==
    IF bits = 0 THEN 0
    ELSE (IF a % 2 = 1 \/ b % 2 = 1 THEN 1 ELSE 0)
         + 2 * BitOrNat(a \div 2, b \div 2, bits - 1)
BitOr(a, b) == BitOrNat(a, b, 8)

\* ----------------------------------------------------------------- NoteOff

NoteOff_STATUS == 128
NoteOff_STATUSMASK == 240
NoteOff_LENGTH == 3
NoteOff_CHANNELMASK == 15

\* midi_message.note_parser on an integer note: the integer itself
note_parser(note) == note

\* NoteOff.__init__: the object, or ValueError when a field is out of range
NoteOffInit(note, velocity) ==
    LET n == note_parser(note)
    IN  IF ~(0 <= n /\ n <= 127) \/ ~(0 <= velocity /\ velocity <= 127)
        THEN [err |-> "ValueError", obj |-> None]
        ELSE [err |-> "none",
              obj |-> Some([cls |-> "NoteOff", note |-> n, velocity |-> velocity])]

\* NoteOff.as_bytes
NoteOffAsBytes(msg, channel) ==
    <<BitOr(NoteOff_STATUS, BitAnd(channel, NoteOff_CHANNELMASK)), msg.note, msg.velocity>>

\* NoteOff.from_bytes: databytes[1] and databytes[2] of a sequence whose
\* first byte, databytes[0], is the status byte
FromBytesSwapped(databytes) == NoteOffInit(databytes[3], databytes[2])
NoteOffFromBytes(databytes) == NoteOffInit(databytes[2], databytes[3])

\* ------------------------------------------------- MIDIMessage (the decoder)

\* the filter "ALL" is stored as
ALL_CHANNELS == [kind |-> "all", val |-> <<>>, s |-> ""]

\* a status byte: top bit set, and the registry (NoteOff.register_message_type)
\* knows its discriminator
IsKnownStatus(b) ==
    /\ b >= 128
    /\ BitAnd(b, NoteOff_STATUSMASK) = NoteOff_STATUS

\* how many leading bytes of the buffer are not a known status byte
RECURSIVE ScanForStatus(_, _)
ScanForStatus(midibytes, i) ==
    IF i >= RingLen(midibytes) THEN i
    ELSE IF IsKnownStatus(RingGetItem(midibytes, i)) THEN i
    ELSE ScanForStatus(midibytes, i + 1)

\* whether the channel filter lets a channel-voice message of channel through
ChannelFilter(channel, channel_spec) ==
    CASE channel_spec = None -> TRUE
      [] channel_spec[1].kind = "all" -> TRUE
      [] channel_spec[1].kind = "int" -> channel = channel_spec[1].val[1]
      [] OTHER -> \E i \in DOMAIN channel_spec[1].val : channel_spec[1].val[i] = channel

\* MIDIMessage.from_message_bytes(midibytes, channel_in):
\* (msg, start, endplusone, skipped, channel), or the error the decode raised
from_message_bytes(midibytes, channel_in) ==
    LET n == RingLen(midibytes)
        skipped == ScanForStatus(midibytes, 0)
        incomplete == [err |-> "none", msg |-> None, start |-> 0,
                       endplusone |-> skipped, skipped |-> skipped, channel |-> None]
    IN  IF skipped >= n \/ n - skipped < NoteOff_LENGTH THEN incomplete
        ELSE LET endplusone == skipped + NoteOff_LENGTH
                 status == RingGetItem(midibytes, skipped)
                 made == NoteOffFromBytes(RingSlice(midibytes, skipped, endplusone, 1))
                 channel == BitAnd(status, NoteOff_CHANNELMASK)
             IN  IF made.err # "none"
                 THEN [incomplete EXCEPT !.err = made.err, !.endplusone = 0, !.skipped = 0]
                 ELSE IF ChannelFilter(channel, channel_in)
                 THEN [incomplete EXCEPT !.msg = made.obj, !.endplusone = endplusone,
                                         !.channel = Some(channel)]
                 ELSE [incomplete EXCEPT !.endplusone = endplusone]

\* -------------------------------------------------------------- MIDI port

\* len(self._in_buf2): readinto never returns more than this
InBuf2Size == 4

\* values handed to the in_channel setter: None, an int, a str, a tuple of ints
ChNone == None
ChInt(c) == Some([kind |-> "int", val |-> <<c>>, s |-> ""])
ChStr(s) == Some([kind |-> "str", val |-> <<>>, s |-> s])
ChTuple(t) == Some([kind |-> "tuple", val |-> t, s |-> ""])

\* the in_channel setter: the value stored, or RuntimeError
InSetterAnyElement(channel) ==
    IF channel = None
        \/ (channel[1].kind = "int" /\ 0 <= channel[1].val[1] /\ channel[1].val[1] <= 15)
    THEN [err |-> "none", stored |-> channel]
    ELSE IF channel[1].kind = "str" /\ channel[1].s = "ALL"
    THEN [err |-> "none", stored |-> Some(ALL_CHANNELS)]
    ELSE IF channel[1].kind = "tuple"
            /\ \E i \in DOMAIN channel[1].val : 0 <= channel[1].val[i] /\ channel[1].val[i] <= 15
    THEN [err |-> "none", stored |-> channel]
    ELSE [err |-> "RuntimeError", stored |-> None]
InChannelSetter(channel) ==
    IF channel = None
        \/ (channel[1].kind = "int" /\ 0 <= channel[1].val[1] /\ channel[1].val[1] <= 15)
    THEN [err |-> "none", stored |-> channel]
    ELSE IF channel[1].kind = "str" /\ channel[1].s = "ALL"
    THEN [err |-> "none", stored |-> Some(ALL_CHANNELS)]
    ELSE IF channel[1].kind = "tuple"
            /\ \A i \in DOMAIN channel[1].val : 0 <= channel[1].val[i] /\ channel[1].val[i] <= 15
    THEN [err |-> "none", stored |-> channel]
    ELSE [err |-> "RuntimeError", stored |-> None]

\* the out_channel setter's guard
OutChannelValid(channel) == 0 <= channel /\ channel <= 15

\* receive, "for i in range(num_read): self._in_buf.append(self._in_buf2[i])":
\* the ring after the loop, and the error that ended it early
RECURSIVE AppendEach(_, _, _)
AppendEach(rb, chunk, i) ==
    IF i > Len(chunk) THEN rb ELSE AppendEach(RingAppend(rb, chunk[i]), chunk, i + 1)
AppendAllOrNothing(rb, chunk, i) ==
    IF Len(chunk) > RingCap(rb) - rb.current_size
    THEN [rb |-> rb, err |-> "RuntimeError"]
    ELSE [rb |-> AppendEach(rb, chunk, i), err |-> "none"]
RECURSIVE ReceiveAppend(_, _, _)
ReceiveAppend(rb, chunk, i) ==
    IF i > Len(chunk) THEN [rb |-> rb, err |-> "none"]
    ELSE IF RingAppendFull(rb) THEN [rb |-> rb, err |-> "RuntimeError"]
    ELSE ReceiveAppend(RingAppend(rb, chunk[i]), chunk, i + 1)

\* receive, "(msg, start, endplusone, skipped, channel) =
\* MIDIMessage.from_message_bytes(self._in_buf, self._in_channel)"
DecodeUnfiltered(rb, channel_in) == from_message_bytes(rb, None)
ReceiveDecode(rb, channel_in) == from_message_bytes(rb, channel_in)

\* receive, "for _ in range(endplusone): self._in_buf.popleft()"
RECURSIVE PopOneLess(_, _)
PopOneLess(rb, count) ==
    IF count <= 1 THEN [rb |-> rb, err |-> "none"]
    ELSE IF RingPopEmpty(rb) THEN [rb |-> rb, err |-> "IndexError"]
    ELSE PopOneLess(RingPopLeft(rb), count - 1)
RECURSIVE PopNewest(_, _)
PopNewest(rb, count) ==
    IF count <= 0 THEN [rb |-> rb, err |-> "none"]
    ELSE IF RingPopEmpty(rb) THEN [rb |-> rb, err |-> "IndexError"]
    ELSE PopNewest([rb EXCEPT !.current_size = @ - 1], count - 1)
RECURSIVE ReceivePop(_, _)
ReceivePop(rb, count) ==
    IF count <= 0 THEN [rb |-> rb, err |-> "none"]
    ELSE IF RingPopEmpty(rb) THEN [rb |-> rb, err |-> "IndexError"]
    ELSE ReceivePop(RingPopLeft(rb), count - 1)

\* what a receive() that raised err after reading nread bytes leaves in last
ReceiveRaised(err, nread) ==
    [op |-> "receive", err |-> err, nread |-> nread, msg |-> None, channel |-> None,
     endplusone |-> 0, skipped |-> 0]

\* MIDI.receive: readinto hands over the next nread pending bytes
Receive ==
    \E nread \in 0..Min(InBuf2Size, Len(wire)) :
    \E filled \in {ReceiveAppend(in_buf, SubSeq(wire, 1, nread), 1)} :
    \E d \in {IF filled.err = "none" THEN ReceiveDecode(filled.rb, in_channel)
              ELSE [err |-> "skip", endplusone |-> 0]} :
    \E drained \in {ReceivePop(filled.rb, d.endplusone)} :
        /\ wire' = SubSeq(wire, nread + 1, Len(wire))
        /\ IF filled.err # "none"
           THEN /\ in_buf' = filled.rb
                /\ last' = ReceiveRaised(filled.err, nread)
                /\ UNCHANGED skipped_bytes
           ELSE IF d.err # "none"
           THEN /\ in_buf' = filled.rb
                /\ last' = ReceiveRaised(d.err, nread)
                /\ UNCHANGED skipped_bytes
           ELSE IF drained.err # "none"
           THEN /\ in_buf' = drained.rb
                /\ last' = ReceiveRaised(drained.err, nread)
                /\ UNCHANGED skipped_bytes
           ELSE /\ in_buf' = drained.rb
                /\ skipped_bytes' = skipped_bytes + d.skipped
                /\ last' = [op |-> "receive", err |-> "none", nread |-> nread,
                            msg |-> d.msg, channel |-> d.channel,
                            endplusone |-> d.endplusone, skipped |-> d.skipped]
        /\ UNCHANGED <<in_channel, out_channel, outbuf, writes, appended, popped>>

\* every byte sequence of length 0..n over ByteSamples
BoundedSeqs(n) == UNION {[1..k -> ByteSamples] : k \in 0..n}

\* the in_channel arguments a port of the receive specification is built with
InChannelArgs == {ChNone, ChInt(0), ChInt(1), ChStr("ALL"), ChTuple(<<1, 2>>)}

\* MIDI.__init__ with in_channel and in_buf_size given, and the bytes the
\* transport will deliver
Init ==
    /\ in_buf = RingBuffer(InBufSize)
    /\ in_channel \in {InChannelSetter(c).stored : c \in InChannelArgs}
    /\ out_channel = 0
    /\ outbuf = <<0, 0, 0, 0>>
    /\ skipped_bytes = 0
    /\ wire \in BoundedSeqs(MaxWire)
    /\ writes = <<>>
    /\ last = [op |-> "init", err |-> "none", nread |-> 0, msg |-> None, channel |-> None,
               endplusone |-> 0, skipped |-> 0]
    /\ appended = <<>>
    /\ popped = <<>>

Next == Receive

Spec == Init /\ [][Next]_vars

\* ------------------------------------------------------- MIDI port: output

NOTE_ON == 144
NOTE_OFF == 128
PITCH_BEND == 224
CONTROL_CHANGE == 176

\* send, "if channel is None: channel = self.out_channel"
ChannelOrDefaultIfFalsy(channel, out) ==
    IF channel = None \/ channel[1] = 0 THEN out ELSE channel[1]
EffectiveChannel(channel, out) == IF channel = None THEN out ELSE channel[1]

\* each_msg.as_bytes(channel=channel): only a NoteOff has the method
AsBytes(msg, channel) ==
    IF msg.cls = "NoteOff"
    THEN [err |-> "none", data |-> NoteOffAsBytes(msg, channel)]
    ELSE [err |-> "AttributeError", data |-> <<>>]

\* send, the loop "for each_msg in msg: data.extend(each_msg.as_bytes(...))"
RECURSIVE SendExtend(_, _, _, _)
SendExtend(data, msgs, i, channel) ==
    IF i > Len(msgs) THEN [err |-> "none", data |-> data]
    ELSE LET b == AsBytes(msgs[i], channel)
         IN  IF b.err # "none" THEN [err |-> b.err, data |-> data]
             ELSE SendExtend(data \o b.data, msgs, i + 1, channel)

\* MIDI._send: one midi_out.write(packet, num)
SendPacket(packet, num) == <<[packet |-> packet, num |-> num]>>

\* MIDI.send(msg, channel): msg is one object (single) or a list of objects;
\* the error raised and the write calls made
SendCall(single, msgs, channel, out) ==
    LET ch == EffectiveChannel(channel, out)
        enc == IF single /\ msgs[1].cls = "NoteOff"
               THEN AsBytes(msgs[1], ch)
               ELSE IF single THEN [err |-> "TypeError", data |-> <<>>]
               ELSE SendExtend(<<>>, msgs, 1, ch)
    IN  IF enc.err # "none" THEN [err |-> enc.err, writes |-> <<>>]
        ELSE [err |-> "none", writes |-> SendPacket(enc.data, Len(enc.data))]

\* MIDI._generic_3: the error raised, the packet buffer left, the write calls
Generic3SecondUnchecked(cmd, arg1, arg2, channel, buf, out) ==
    IF ~(0 <= arg1 /\ arg1 <= 127)
    THEN [err |-> "RuntimeError", outbuf |-> buf, writes |-> <<>>]
    ELSE LET ch == IF channel = None THEN out ELSE channel[1]
             packet == [buf EXCEPT ![1] = BitOr(BitAnd(cmd, 240), BitAnd(ch, 15)),
                                   ![2] = arg1, ![3] = arg2]
         IN  [err |-> "none", outbuf |-> packet, writes |-> SendPacket(packet, 3)]
Generic3Unmasked(cmd, arg1, arg2, channel, buf, out) ==
    IF ~(0 <= arg1 /\ arg1 <= 127)
    THEN [err |-> "RuntimeError", outbuf |-> buf, writes |-> <<>>]
    ELSE IF ~(0 <= arg2 /\ arg2 <= 127)
    THEN [err |-> "RuntimeError", outbuf |-> buf, writes |-> <<>>]
    ELSE LET ch == IF channel = None THEN out ELSE channel[1]
             packet == [buf EXCEPT ![1] = BitOr(BitAnd(cmd, 240), ch % 256),
                                   ![2] = arg1, ![3] = arg2]
         IN  [err |-> "none", outbuf |-> packet, writes |-> SendPacket(packet, 3)]
Generic3(cmd, arg1, arg2, channel, buf, out) ==
    IF ~(0 <= arg1 /\ arg1 <= 127)
    THEN [err |-> "RuntimeError", outbuf |-> buf, writes |-> <<>>]
    ELSE IF ~(0 <= arg2 /\ arg2 <= 127)
    THEN [err |-> "RuntimeError", outbuf |-> buf, writes |-> <<>>]
    ELSE LET ch == IF channel = None THEN out ELSE channel[1]
             packet == [buf EXCEPT ![1] = BitOr(BitAnd(cmd, 240), BitAnd(ch, 15)),
                                   ![2] = arg1, ![3] = arg2]
         IN  [err |-> "none", outbuf |-> packet, writes |-> SendPacket(packet, 3)]

\* pitch_bend's two arguments to _generic_3: value & 0x7F and value >> 7
PitchBendHighFirst(value) == <<value \div 128, BitAnd(value, 127)>>
PitchBendArgs(value) == <<BitAnd(value, 127), value \div 128>>

\* arguments of the helpers and of NoteOff(note, velocity), of pitch_bend,
\* the channel arguments, the out_channel arguments of the constructor
PairArgs == {<<60, 64>>, <<0, 127>>, <<-1, 0>>, <<128, 0>>, <<0, -1>>, <<0, 128>>}
PitchValues == {-1, 0, 8192, 16383, 16384}
ChannelArgs == {None, Some(0), Some(17), Some(-1)}
OutChannelArgs == {-1, 1, 15, 16}

\* the objects send() is handed: the NoteOff messages that PairArgs make, and
\* an object that is no MIDIMessage
NotAMessage == [cls |-> "object", note |-> 0, velocity |-> 0]
SendElems ==
    {NoteOffInit(a[1], a[2]).obj[1] : a \in {x \in PairArgs : NoteOffInit(x[1], x[2]).err = "none"}}
        \cup {NotAMessage}
SendLists == UNION {[1..k -> SendElems] : k \in 0..MaxSeq}

NoCall == [op |-> "init", err |-> "none", a1 |-> 0, a2 |-> 0, ch |-> None,
           single |-> FALSE, msgs |-> <<>>, obj |-> None]

InitSend ==
    /\ in_buf = RingBuffer(InBufSize)
    /\ in_channel = None
    /\ out_channel \in {c \in OutChannelArgs : OutChannelValid(c)}
    /\ outbuf = <<0, 0, 0, 0>>
    /\ skipped_bytes = 0
    /\ wire = <<>>
    /\ writes = <<>>
    /\ last = NoCall
    /\ appended = <<>>
    /\ popped = <<>>

UnchangedBySend == UNCHANGED <<in_buf, in_channel, out_channel, skipped_bytes, wire,
                               appended, popped>>

\* NoteOff(note, velocity)
NewNoteOff(note, velocity) ==
    /\ last' = [NoCall EXCEPT !.op = "NoteOff", !.a1 = note, !.a2 = velocity,
                              !.err = NoteOffInit(note, velocity).err,
                              !.obj = NoteOffInit(note, velocity).obj]
    /\ writes' = <<>>
    /\ UNCHANGED outbuf
    /\ UnchangedBySend

\* MIDI.send
Send(single, msgs, channel) ==
    \E r \in {SendCall(single, msgs, channel, out_channel)} :
        /\ last' = [NoCall EXCEPT !.op = "send", !.ch = channel, !.single = single,
                                  !.msgs = msgs, !.err = r.err]
        /\ writes' = r.writes
        /\ UNCHANGED outbuf
        /\ UnchangedBySend

\* MIDI.note_on, MIDI.note_off, MIDI.control_change
Helper(name, cmd, arg1, arg2, channel) ==
    \E r \in {Generic3(cmd, arg1, arg2, channel, outbuf, out_channel)} :
        /\ last' = [NoCall EXCEPT !.op = name, !.a1 = arg1, !.a2 = arg2, !.ch = channel,
                                  !.err = r.err]
        /\ writes' = r.writes
        /\ outbuf' = r.outbuf
        /\ UnchangedBySend

\* MIDI.pitch_bend
PitchBend(value, channel) ==
    \E r \in {Generic3(PITCH_BEND, PitchBendArgs(value)[1], PitchBendArgs(value)[2],
                       channel, outbuf, out_channel)} :
        /\ last' = [NoCall EXCEPT !.op = "pitch_bend", !.a1 = value, !.ch = channel,
                                  !.err = r.err]
        /\ writes' = r.writes
        /\ outbuf' = r.outbuf
        /\ UnchangedBySend

NextSend ==
    \/ \E a \in PairArgs : NewNoteOff(a[1], a[2])
    \/ \E m \in SendElems, c \in ChannelArgs : Send(TRUE, <<m>>, c)
    \/ \E l \in SendLists, c \in ChannelArgs : Send(FALSE, l, c)
    \/ \E a \in PairArgs, c \in ChannelArgs : Helper("note_on", NOTE_ON, a[1], a[2], c)
    \/ \E a \in PairArgs, c \in ChannelArgs : Helper("note_off", NOTE_OFF, a[1], a[2], c)
    \/ \E a \in PairArgs, c \in ChannelArgs :
          Helper("control_change", CONTROL_CHANGE, a[1], a[2], c)
    \/ \E v \in PitchValues, c \in ChannelArgs : PitchBend(v, c)

SpecSend == InitSend /\ [][NextSend]_vars

\* ---------------------------------------------------- claims about output

\* the NoteOff messages among the objects of the last send()
AllMessages(msgs) == \A i \in DOMAIN msgs : msgs[i].cls = "NoteOff"

\* the channel the last call was to use: its argument, else out_channel
LastChannel == IF last.ch = None THEN out_channel ELSE last.ch[1]

\* C8: a send() of one message or of a list of messages calls write exactly
\* once, with num the length of the packet; the packet is, message after
\* message in list order, the status byte 0x80 + (channel mod 16) and the
\* message's note and velocity, where channel is the channel argument when
\* one is given (0 included) and the configured out_channel otherwise.
C8_Send ==
    (last.op = "send" /\ AllMessages(last.msgs)) =>
        /\ last.err = "none"
        /\ Len(writes) = 1
        /\ writes[1].num = Len(writes[1].packet)
        /\ writes[1].num = 3 * Len(last.msgs)
        /\ \A i \in DOMAIN last.msgs :
              /\ writes[1].packet[3 * i - 2] = 128 + (LastChannel % 16)
              /\ writes[1].packet[3 * i - 1] = last.msgs[i].note
              /\ writes[1].packet[3 * i] = last.msgs[i].velocity

\* a list of two different messages was sent on the explicit channel 0, which
\* is not the configured out_channel
C8_Witness ==
    /\ last.op = "send" /\ last.err = "none"
    /\ ~last.single /\ Len(last.msgs) = 2 /\ last.msgs[1] # last.msgs[2]
    /\ last.ch = Some(0) /\ out_channel # 0
    /\ Len(writes) = 1 /\ writes[1].num = 6

\* the last call's arguments are out of range: a note, velocity or helper
\* argument outside 0..127, a pitch bend outside 0..16383
OutOfRange(call) ==
    \/ /\ call.op \in {"NoteOff", "note_on", "note_off", "control_change"}
       /\ ~(call.a1 \in 0..127 /\ call.a2 \in 0..127)
    \/ /\ call.op = "pitch_bend"
       /\ ~(call.a1 \in 0..16383)

\* C9: NoteOff(note, velocity) with a field outside 0..127 raises and makes
\* no object; a helper called with an out-of-range argument raises; a send()
\* handed an object that cannot be encoded raises, also when messages before
\* it in the list were encoded; in each of these failures write is not
\* called and the packet buffer is left as it was.
C9_ValidationFirst ==
    [][/\ OutOfRange(last') =>
             /\ last'.err # "none"
             /\ last'.obj = None
       /\ (last'.op = "send" /\ ~AllMessages(last'.msgs)) => last'.err # "none"
       /\ last'.err # "none" =>
             /\ writes' = <<>>
             /\ outbuf' = outbuf]_vars

\* a send() failed at the second object of its list, after a helper had
\* filled the packet buffer
C9_Witness ==
    /\ last.op = "send" /\ last.err # "none"
    /\ Len(last.msgs) = 2
    /\ last.msgs[1].cls = "NoteOff" /\ last.msgs[2].cls # "NoteOff"
    /\ writes = <<>>
    /\ outbuf # <<0, 0, 0, 0>>

\* a helper refused its second argument after an earlier call had filled the
\* packet buffer
C9_WitnessHelper ==
    /\ last.op = "note_on" /\ last.err = "RuntimeError"
    /\ last.a1 \in 0..127 /\ last.a2 > 127
    /\ outbuf # <<0, 0, 0, 0>>

\* the high nibble of the status byte each helper writes
TypeNibble(op) ==
    CASE op = "note_off" -> 8
      [] op = "note_on" -> 9
      [] op = "control_change" -> 11
      [] op = "pitch_bend" -> 14

\* C10: a helper called with in-range arguments and a channel in 0..15 (its
\* argument, else out_channel) makes one write of 3 bytes, [16 * type nibble
\* + channel, data1, data2]; for note_on, note_off and control_change the
\* data bytes are the two arguments; pitch_bend(v) is accepted exactly when
\* 0 <= v <= 16383, and then data1 = v mod 128, data2 = v div 128 and
\* data1 + 128 * data2 = v.
C10_HelperWire ==
    /\ last.op = "pitch_bend" => (last.err = "none" <=> last.a1 \in 0..16383)
    /\ (/\ last.op \in {"note_on", "note_off", "control_change", "pitch_bend"}
        /\ ~OutOfRange(last)
        /\ LastChannel \in 0..15) =>
           /\ last.err = "none"
           /\ Len(writes) = 1
           /\ writes[1].num = 3
           /\ writes[1].packet[1] = 16 * TypeNibble(last.op) + LastChannel
           /\ IF last.op = "pitch_bend"
              THEN /\ writes[1].packet[2] = last.a1 % 128
                   /\ writes[1].packet[3] = last.a1 \div 128
                   /\ writes[1].packet[2] + 128 * writes[1].packet[3] = last.a1
              ELSE /\ writes[1].packet[2] = last.a1
                   /\ writes[1].packet[3] = last.a2

\* pitch_bend(8192) wrote the data bytes 0x00, 0x40
C10_Witness ==
    /\ last.op = "pitch_bend" /\ last.a1 = 8192 /\ last.err = "none"
    /\ Len(writes) = 1
    /\ SubSeq(writes[1].packet, 2, writes[1].num) = <<0, 64>>

\* ------------------------------------------------- claims about receive()

\* the ring's content before a receive() step followed by the bytes it read
Offered == RingContents(in_buf) \o SubSeq(wire, 1, Len(wire) - Len(wire'))

\* s is a Note Off status byte followed by two data bytes
IsNoteOffBytes(s) ==
    /\ Len(s) = 3
    /\ s[1] \div 16 = 8
    /\ s[2] <= 127 /\ s[3] <= 127

\* s is the first bytes (at least one, perhaps all) of such a message
IsNoteOffPrefix(s) ==
    /\ Len(s) \in 1..3
    /\ s[1] \div 16 = 8
    /\ \A i \in 2..Len(s) : s[i] <= 127

\* the number of leading bytes of s that are not a Note Off status byte
RECURSIVE LeadingJunk(_)
LeadingJunk(s) ==
    IF s = <<>> \/ s[1] \div 16 = 8 THEN 0 ELSE 1 + LeadingJunk(Tail(s))

\* what one receive() returns when a fresh port reads all of s in one call
OneRead(s) == ReceiveDecode(ReceiveAppend(RingBuffer(InBufSize), s, 1).rb, in_channel)

\* C2: when a receive() finds in the ring, after its read, only the first
\* bytes of one valid Note Off message, it returns (None, None), pops nothing
\* and counts nothing as skipped; when its read completes the message it
\* returns what a single read of the whole message returns (with no filter:
\* NoteOff(note, velocity) and the status byte's channel), leaves the ring
\* empty and still counts nothing as skipped.
C2_Fragments ==
    [][(last'.op = "receive" /\ IsNoteOffPrefix(Offered)) =>
        /\ last'.err = "none"
        /\ last'.skipped = 0
        /\ skipped_bytes' = skipped_bytes
        /\ IF Len(Offered) < 3
           THEN /\ last'.msg = None /\ last'.channel = None
                /\ last'.endplusone = 0
                /\ RingContents(in_buf') = Offered
           ELSE /\ last'.msg = OneRead(Offered).msg
                /\ last'.channel = OneRead(Offered).channel
                /\ in_channel = None =>
                      /\ last'.msg = Some([cls |-> "NoteOff", note |-> Offered[2],
                                           velocity |-> Offered[3]])
                      /\ last'.channel = Some(Offered[1] % 16)
                /\ RingContents(in_buf') = <<>>]_vars

\* a message was returned by the call that read only its last byte, the ring
\* holding its first two bytes from earlier calls
C2_Witness ==
    /\ last.op = "receive" /\ last.err = "none"
    /\ last.msg # None
    /\ last.nread = 1 /\ last.endplusone = 3 /\ last.skipped = 0
    /\ skipped_bytes = 0

\* C3: when the ring holds, after the read, N bytes that are no Note Off
\* status byte followed by exactly one complete valid Note Off message, an
\* unfiltered receive() returns that message and its channel with skipped = N
\* and consumed = N + 3, and leaves the ring empty.
C3_Resync ==
    [][LET n == LeadingJunk(Offered)
       IN  (/\ last'.op = "receive"
            /\ in_channel = None
            /\ Len(Offered) <= RingCap(in_buf)
            /\ Len(Offered) = n + 3
            /\ IsNoteOffBytes(SubSeq(Offered, n + 1, n + 3))) =>
               /\ last'.err = "none"
               /\ last'.msg = Some([cls |-> "NoteOff", note |-> Offered[n + 2],
                                    velocity |-> Offered[n + 3]])
               /\ last'.channel = Some(Offered[n + 1] % 16)
               /\ last'.skipped = n
               /\ last'.endplusone = n + 3
               /\ skipped_bytes' = skipped_bytes + n
               /\ RingContents(in_buf') = <<>>]_vars

\* C4: with in_channel a single channel c and a complete valid Note Off
\* message at the head of the ring, receive() returns the message and c when
\* the message is addressed to c, and (None, None) otherwise; either way it
\* pops the message's 3 bytes and no more, and counts nothing as skipped.
C4_ChannelFilter ==
    [][(/\ last'.op = "receive"
        /\ in_channel # None /\ in_channel[1].kind = "int"
        /\ Len(Offered) \in 3..RingCap(in_buf)
        /\ IsNoteOffBytes(SubSeq(Offered, 1, 3))) =>
           /\ last'.err = "none"
           /\ IF Offered[1] % 16 = in_channel[1].val[1]
              THEN /\ last'.msg = Some([cls |-> "NoteOff", note |-> Offered[2],
                                        velocity |-> Offered[3]])
                   /\ last'.channel = Some(in_channel[1].val[1])
              ELSE /\ last'.msg = None
                   /\ last'.channel = None
           /\ last'.endplusone = 3
           /\ RingContents(in_buf') = SubSeq(Offered, 4, Len(Offered))
           /\ last'.skipped = 0
           /\ skipped_bytes' = skipped_bytes]_vars

\* a message for another channel was dropped: 3 bytes popped, none skipped
C4_Witness ==
    /\ last.op = "receive" /\ last.err = "none"
    /\ in_channel # None /\ in_channel[1].kind = "int"
    /\ last.msg = None /\ last.channel = None
    /\ last.endplusone = 3 /\ last.skipped = 0
    /\ in_buf.start = 3 % InBufSize

\* C5: a receive() that reads more bytes than the ring has free slots raises
\* the append's RuntimeError("Buffer full"); the ring then holds its former
\* content followed by the leading bytes of the chunk that fitted, it is
\* full, its start has not moved (nothing was popped), nothing was decoded
\* or counted as skipped, and the rest of the chunk is in neither the ring
\* nor the transport.
C5_Overflow ==
    [][LET before == RingContents(in_buf)
           nread == Len(wire) - Len(wire')
           free == RingCap(in_buf) - Len(before)
       IN  (last'.op = "receive" /\ nread > free) =>
               /\ last'.err = "RuntimeError"
               /\ last'.nread = nread
               /\ RingContents(in_buf') = before \o SubSeq(wire, 1, free)
               /\ in_buf'.current_size = RingCap(in_buf)
               /\ in_buf'.start = in_buf.start
               /\ last'.msg = None /\ last'.channel = None
               /\ last'.endplusone = 0 /\ last'.skipped = 0
               /\ skipped_bytes' = skipped_bytes
               /\ wire' = SubSeq(wire, nread + 1, Len(wire))]_vars

\* a read of at least two bytes, no more than the ring's capacity, overflowed
\* the ring: it was not empty before the call
C5_Witness ==
    /\ last.op = "receive" /\ last.err = "RuntimeError"
    /\ last.nread \in 2..InBufSize
    /\ in_buf.current_size = InBufSize

InitRing ==
    /\ in_buf = RingBuffer(RingSize)
    /\ in_channel = None
    /\ out_channel = 0
    /\ outbuf = <<0, 0, 0, 0>>
    /\ skipped_bytes = 0
    /\ wire = <<>>
    /\ writes = <<>>
    /\ last = [op |-> "init", err |-> "none", val |-> None]
    /\ appended = <<>>
    /\ popped = <<>>

DoAppend(value) ==
    /\ RingAppendFull(in_buf) \/ Len(appended) < MaxOps
    /\ IF RingAppendFull(in_buf)
       THEN /\ last' = [op |-> "append", err |-> "RuntimeError", val |-> None]
            /\ UNCHANGED <<in_buf, appended>>
       ELSE /\ in_buf' = RingAppend(in_buf, value)
            /\ appended' = Append(appended, value)
            /\ last' = [op |-> "append", err |-> "none", val |-> None]
    /\ UNCHANGED <<in_channel, out_channel, outbuf, skipped_bytes, wire, writes, popped>>

DoPopLeft ==
    /\ IF RingPopEmpty(in_buf)
       THEN /\ last' = [op |-> "popleft", err |-> "IndexError", val |-> None]
            /\ UNCHANGED <<in_buf, popped>>
       ELSE /\ in_buf' = RingPopLeft(in_buf)
            /\ popped' = Append(popped, RingPopValue(in_buf))
            /\ last' = [op |-> "popleft", err |-> "none", val |-> Some(RingPopValue(in_buf))]
    /\ UNCHANGED <<in_channel, out_channel, outbuf, skipped_bytes, wire, writes, appended>>

NextRing ==
    \/ \E value \in ByteSamples : DoAppend(value)
    \/ DoPopLeft

SpecRing == InitRing /\ [][NextRing]_vars

\* C1: the bytes popleft has returned so far are, in order, the first bytes
\* that were appended: the k-th successful popleft returns the k-th appended
\* byte, also after the write position has wrapped around the backing store.
C1_Fifo ==
    /\ Len(popped) <= Len(appended)
    /\ popped = SubSeq(appended, 1, Len(popped))
    /\ (last.op = "popleft" /\ last.err = "none") => last.val = Some(appended[Len(popped)])

\* three bytes popped in order after the write position wrapped
C1_Witness ==
    /\ Len(popped) >= 3
    /\ Len(appended) > RingSize
    /\ last.op = "popleft" /\ last.err = "none"

\* C6: an append to a full buffer raises and a popleft from an empty buffer
\* raises, and neither changes the backing store, the length or the start.
C6_ErrorCases ==
    [][/\ (last'.op = "append" /\ RingCap(in_buf) = in_buf.current_size)
            => (last'.err = "RuntimeError" /\ in_buf' = in_buf)
       /\ (last'.op = "popleft" /\ in_buf.current_size = 0)
            => (last'.err = "IndexError" /\ in_buf' = in_buf)
       /\ last'.err # "none" => in_buf' = in_buf]_vars

\* a full buffer has refused an append after the start offset moved
C6_Witness ==
    /\ last.op = "append" /\ last.err = "RuntimeError"
    /\ in_buf.current_size = RingSize
    /\ in_buf.start > 0

C6_WitnessEmpty ==
    /\ last.op = "popleft" /\ last.err = "IndexError"
    /\ Len(popped) > 0

\* ------------------------------------------- NoteOff: encode, then decode

\* the status byte's low nibble, which the decoder reports as the channel
StatusChannel(databytes) == BitAnd(databytes[1], NoteOff_CHANNELMASK)

\* a NoteOff built from legal fields, and the channel it will be sent on
InitCodec ==
    /\ in_buf = RingBuffer(RingSize)
    /\ in_channel = None
    /\ out_channel = 0
    /\ outbuf = <<0, 0, 0, 0>>
    /\ skipped_bytes = 0
    /\ wire = <<>>
    /\ writes = <<>>
    /\ \E note \in 0..127, velocity \in 0..127, channel \in 0..15 :
          last = [op |-> "NoteOff", obj |-> NoteOffInit(note, velocity).obj,
                  channel |-> channel, data |-> <<>>, decoded |-> None,
                  decoded_channel |-> None]
    /\ appended = <<>>
    /\ popped = <<>>

\* msg.as_bytes(channel)
DoAsBytes ==
    /\ last.op = "NoteOff"
    /\ last' = [last EXCEPT !.op = "as_bytes",
                            !.data = NoteOffAsBytes(last.obj[1], last.channel)]
    /\ UNCHANGED <<in_buf, in_channel, out_channel, outbuf, skipped_bytes, wire, writes,
                   appended, popped>>

\* NoteOff.from_bytes on the encoded bytes, and the channel read off the status
DoFromBytes ==
    /\ last.op = "as_bytes"
    /\ last' = [last EXCEPT !.op = "from_bytes",
                            !.decoded = NoteOffFromBytes(last.data).obj,
                            !.decoded_channel = Some(StatusChannel(last.data))]
    /\ UNCHANGED <<in_buf, in_channel, out_channel, outbuf, skipped_bytes, wire, writes,
                   appended, popped>>

NextCodec ==
    \/ DoAsBytes
    \/ DoFromBytes

SpecCodec == InitCodec /\ [][NextCodec]_vars

\* C11: for every note and velocity in 0..127 and every channel in 0..15 the
\* encoding is the three bytes 0x80 | channel, note, velocity, and decoding
\* those bytes gives back the same note, the same velocity and the same channel.
C11_RoundTrip ==
    /\ last.op \in {"as_bytes", "from_bytes"}
         => last.data = <<128 + last.channel, last.obj[1].note, last.obj[1].velocity>>
    /\ last.op = "from_bytes"
         => /\ last.decoded = last.obj
            /\ last.decoded_channel = Some(last.channel)

\* a note that differs from its velocity went out on channel 15 and came back
C11_Witness ==
    /\ last.op = "from_bytes"
    /\ last.channel = 15
    /\ last.obj[1].note = 127 /\ last.obj[1].velocity = 1
    /\ last.decoded # None

\* ------------------------------------------------ MIDI port: channel setup

\* a list handed to the in_channel setter, which takes tuples only
ChList(t) == Some([kind |-> "list", val |-> t, s |-> ""])

\* the values assigned to in_channel
InSetArgs ==
    {ChNone, ChInt(-1), ChInt(0), ChInt(15), ChInt(16), ChStr("ALL"), ChStr("all"),
     ChTuple(<<>>), ChTuple(<<0, 15>>), ChTuple(<<3, 16>>), ChTuple(<<-1, 3>>),
     ChList(<<1>>)}

\* MIDI.__init__ with its default channels
InitConfig ==
    /\ in_buf = RingBuffer(InBufSize)
    /\ in_channel = InChannelSetter(ChNone).stored
    /\ out_channel = 0
    /\ outbuf = <<0, 0, 0, 0>>
    /\ skipped_bytes = 0
    /\ wire = <<>>
    /\ writes = <<>>
    /\ last = [op |-> "init", err |-> "none", arg_in |-> None, arg_out |-> 0]
    /\ appended = <<>>
    /\ popped = <<>>

\* midi.in_channel = channel
SetInChannel(channel) ==
    /\ \E r \in {InChannelSetter(channel)} :
          /\ in_channel' = IF r.err = "none" THEN r.stored ELSE in_channel
          /\ last' = [op |-> "in_channel", err |-> r.err, arg_in |-> channel, arg_out |-> 0]
    /\ UNCHANGED <<in_buf, out_channel, outbuf, skipped_bytes, wire, writes, appended, popped>>

\* midi.out_channel = channel
SetOutChannel(channel) ==
    /\ IF OutChannelValid(channel)
       THEN /\ out_channel' = channel
            /\ last' = [op |-> "out_channel", err |-> "none", arg_in |-> None,
                        arg_out |-> channel]
       ELSE /\ UNCHANGED out_channel
            /\ last' = [op |-> "out_channel", err |-> "RuntimeError", arg_in |-> None,
                        arg_out |-> channel]
    /\ UNCHANGED <<in_buf, in_channel, outbuf, skipped_bytes, wire, writes, appended, popped>>

NextConfig ==
    \/ \E channel \in InSetArgs : SetInChannel(channel)
    \/ \E channel \in OutChannelArgs : SetOutChannel(channel)

SpecConfig == InitConfig /\ [][NextConfig]_vars

\* the forms the documentation allows for an in_channel argument
LegalInArg(channel) ==
    \/ channel = None
    \/ channel[1].kind = "int" /\ channel[1].val[1] \in 0..15
    \/ channel[1].kind = "str" /\ channel[1].s = "ALL"
    \/ channel[1].kind = "tuple" /\ \A i \in DOMAIN channel[1].val : channel[1].val[i] \in 0..15

\* the forms a stored in_channel may have
LegalInChannel(stored) ==
    \/ stored = None
    \/ stored = Some(ALL_CHANNELS)
    \/ stored[1].kind = "int" /\ stored[1].val[1] \in 0..15
    \/ stored[1].kind = "tuple" /\ \A i \in DOMAIN stored[1].val : stored[1].val[i] \in 0..15

C12_WitnessOut ==
    /\ last.op = "out_channel" /\ last.err = "RuntimeError"
    /\ last.arg_out = 16
    /\ out_channel = 1

\* ------------------------------------- RingBuffer: indexed and sliced reads

\* the bytes stored in the ring of the read specification
ReadBytes == {60, 64, 129}

\* the steps a slice is taken with
SliceSteps == {1, 2}

\* __getitem__ with a slice, "b = bytearray(length)": a negative length raises
RingSliceRaises(start, stop, step) == (stop - start) \div step < 0

\* what an append or a popleft leaves in last
Mutation(op, err, out) ==
    [op |-> op, err |-> err, index |-> 0, start |-> 0, stop |-> 0, step |-> 1, out |-> out]

InitRead ==
    /\ in_buf = RingBuffer(RingSize)
    /\ in_channel = None
    /\ out_channel = 0
    /\ outbuf = <<0, 0, 0, 0>>
    /\ skipped_bytes = 0
    /\ wire = <<>>
    /\ writes = <<>>
    /\ last = Mutation("init", "none", <<>>)
    /\ appended = <<>>
    /\ popped = <<>>

\* rb.append(value)
ReadAppend(value) ==
    /\ IF RingAppendFull(in_buf)
       THEN /\ last' = Mutation("append", "RuntimeError", <<>>)
            /\ UNCHANGED in_buf
       ELSE /\ in_buf' = RingAppend(in_buf, value)
            /\ last' = Mutation("append", "none", <<>>)
    /\ UNCHANGED <<in_channel, out_channel, outbuf, skipped_bytes, wire, writes,
                   appended, popped>>

\* rb.popleft()
ReadPopLeft ==
    /\ IF RingPopEmpty(in_buf)
       THEN /\ last' = Mutation("popleft", "IndexError", <<>>)
            /\ UNCHANGED in_buf
       ELSE /\ in_buf' = RingPopLeft(in_buf)
            /\ last' = Mutation("popleft", "none", <<RingPopValue(in_buf)>>)
    /\ UNCHANGED <<in_channel, out_channel, outbuf, skipped_bytes, wire, writes,
                   appended, popped>>

\* rb[index] with an integer index
DoGetItem(index) ==
    /\ last' = [op |-> "getitem", err |-> "none", index |-> index, start |-> 0,
                stop |-> 0, step |-> 1, out |-> <<RingGetItem(in_buf, index)>>]
    /\ UNCHANGED <<in_buf, in_channel, out_channel, outbuf, skipped_bytes, wire, writes,
                   appended, popped>>

\* rb[start:stop:step]
DoSlice(start, stop, step) ==
    /\ last' = [op |-> "slice", index |-> 0, start |-> start, stop |-> stop, step |-> step,
                err |-> IF RingSliceRaises(start, stop, step) THEN "ValueError" ELSE "none",
                out |-> IF RingSliceRaises(start, stop, step) THEN <<>>
                        ELSE RingSlice(in_buf, start, stop, step)]
    /\ UNCHANGED <<in_buf, in_channel, out_channel, outbuf, skipped_bytes, wire, writes,
                   appended, popped>>

NextRead ==
    \/ \E value \in ReadBytes : ReadAppend(value)
    \/ ReadPopLeft
    \/ \E index \in 0..RingSize : DoGetItem(index)
    \/ \E start \in 0..RingLen(in_buf), stop \in 0..RingLen(in_buf), step \in SliceSteps :
          DoSlice(start, stop, step)

SpecRead == InitRead /\ [][NextRead]_vars

\* C13: an indexed read at i, 0 <= i < length, returns the i-th oldest byte
\* still in the buffer, which is the byte the (i+1)-th following popleft would
\* return, whatever pops and appends came before (also when the stored bytes
\* wrap around the end of the backing store), and leaves the buffer unchanged.
C13_IndexedRead ==
    [][(last'.op = "getitem" /\ last'.index < RingLen(in_buf))
          => /\ last'.err = "none"
             /\ last'.out = <<RingContents(in_buf)[last'.index + 1]>>
             /\ in_buf' = in_buf]_vars

\* the read went past the end of the backing store and returned a byte that
\* is neither the oldest one nor the one in cell 0
C13_Witness ==
    /\ last.op = "getitem" /\ last.index = 1
    /\ in_buf.start = RingSize - 1
    /\ in_buf.current_size >= 2
    /\ last.out # <<RingContents(in_buf)[1]>>
    /\ last.out # <<in_buf.buf[in_buf.start]>>

\* C14: an indexed read at an index that is not below the length raises a
\* range error instead of returning a byte of the backing store.
C14_IndexChecked ==
    [][(last'.op = "getitem" /\ last'.index >= RingLen(in_buf))
          => last'.err # "none"]_vars

\* C15: a slice from start to stop with step 1, 0 <= start <= stop <= length,
\* returns stop - start bytes, the k-th of which is the byte an indexed read
\* at start + k returns, and leaves the buffer unchanged.
C15_UnitSlice ==
    [][(last'.op = "slice" /\ last'.step = 1 /\ last'.start <= last'.stop)
          => /\ last'.err = "none"
             /\ Len(last'.out) = last'.stop - last'.start
             /\ \A k \in 0..(last'.stop - last'.start - 1) :
                   last'.out[k + 1] = RingGetItem(in_buf, last'.start + k)
             /\ in_buf' = in_buf]_vars

\* C16: a slice from 0 to stop with a step N > 1, 0 < stop <= length, returns
\* the bytes at the indexes 0, N, 2N, ... below stop, one for every such
\* index and no other.
C16_SteppedSlice ==
    [][(last'.op = "slice" /\ last'.step > 1 /\ last'.start = 0 /\ last'.stop > 0)
          => /\ last'.err = "none"
             /\ Len(last'.out) = (last'.stop + last'.step - 1) \div last'.step
             /\ \A k \in 0..((last'.stop + last'.step - 1) \div last'.step - 1) :
                   last'.out[k + 1] = RingGetItem(in_buf, last'.step * k)]_vars

\* the ring's fields are those of a well-formed ring of the capacity built
RingWellFormed(rb, size) ==
    /\ DOMAIN rb.buf = 0..(size - 1)
    /\ rb.current_size \in 0..size
    /\ rb.start \in 0..(size - 1)

\* C19: under every sequence of appends, poplefts, indexed reads and slices,
\* failing ones included, the length stays in 0..capacity, the start offset
\* stays in 0..capacity-1 and the capacity stays the one the ring was built with.
C19_RingInvariant ==
    /\ RingCap(in_buf) = RingSize
    /\ RingWellFormed(in_buf, RingSize)

\* a full ring whose start offset is at the last cell has just refused an append
C19_Witness ==
    /\ last.op = "append" /\ last.err = "RuntimeError"
    /\ in_buf.start = RingSize - 1
    /\ in_buf.current_size = RingSize

\* a slice whose stop is below its start has failed on a ring that had wrapped
C19_WitnessRead ==
    /\ last.op = "slice" /\ last.err = "ValueError"
    /\ in_buf.start + in_buf.current_size > RingSize

\* ------------------------------------- helpers: channels outside 0..15

\* C20: a helper called with in-range data arguments accepts every integer
\* channel; the status byte it writes is 16 * the helper's type nibble +
\* (channel mod 16), so the high nibble is always the helper's message type
\* and a channel outside 0..15 goes out as channel mod 16; the two data bytes
\* are in 0..127.
C20_ChannelMasked ==
    (/\ last.op \in {"note_on", "note_off", "control_change", "pitch_bend"}
     /\ ~OutOfRange(last)) =>
        /\ last.err = "none"
        /\ Len(writes) = 1
        /\ writes[1].packet[1] = 16 * TypeNibble(last.op) + (LastChannel % 16)
        /\ writes[1].packet[1] \div 16 = TypeNibble(last.op)
        /\ writes[1].packet[1] % 16 = LastChannel % 16
        /\ writes[1].packet[2] \in 0..127
        /\ writes[1].packet[3] \in 0..127

\* note_off on channel 17 went out with the status byte 0x81
C20_Witness ==
    /\ last.op = "note_off" /\ last.err = "none"
    /\ last.ch = Some(17)
    /\ Len(writes) = 1
    /\ writes[1].packet[1] = 129

\* control_change on channel -1 went out with the status byte 0xBF
C20_WitnessNegative ==
    /\ last.op = "control_change" /\ last.err = "none"
    /\ last.ch = Some(-1)
    /\ Len(writes) = 1
    /\ writes[1].packet[1] = 191

\* ------------------------------------------- receive(): bytes are conserved

\* C18: after every receive() that does not raise, the ring holds its
\* content from before the call followed by the bytes the call read, less the
\* first `consumed` bytes of that sequence, so its length is the length
\* before + the bytes read - the bytes consumed; no byte is dropped, repeated
\* or reordered.
C18_Conservation ==
    [][(last'.op = "receive" /\ last'.err = "none")
          => /\ last'.endplusone \in 0..Len(Offered)
             /\ RingContents(in_buf') = SubSeq(Offered, last'.endplusone + 1, Len(Offered))
             /\ RingLen(in_buf') = RingLen(in_buf) + last'.nread - last'.endplusone
             /\ last'.nread = Len(wire) - Len(wire')]_vars

\* a call read bytes, consumed a message and left a later byte in the ring
C18_Witness ==
    /\ last.op = "receive" /\ last.err = "none"
    /\ last.nread >= 2
    /\ last.endplusone >= 3
    /\ in_buf.current_size >= 1
    /\ last.msg # None

\* ------------------------------- receive(): draining buffered messages

\* the capacity of the input ring of the drain specification: two whole
\* messages stay buffered only after a call that held three
DrainBufSize == 9

\* how many messages the transport delivers at most
MaxMsgs == 8

\* the encoded messages the transport delivers
DrainMessages ==
    {NoteOffAsBytes(NoteOffInit(60, 64).obj[1], 1), NoteOffAsBytes(NoteOffInit(64, 0).obj[1], 15)}

\* every byte stream made of k encoded messages
RECURSIVE Streams(_)
Streams(k) ==
    IF k = 0 THEN {<<>>} ELSE {m \o s : m \in DrainMessages, s \in Streams(k - 1)}

\* MIDI.__init__ with a larger in_buf_size, listening to every channel, and a
\* transport that delivers whole valid messages only
InitDrain ==
    /\ in_buf = RingBuffer(DrainBufSize)
    /\ in_channel \in {InChannelSetter(c).stored : c \in {ChNone, ChStr("ALL")}}
    /\ out_channel = 0
    /\ outbuf = <<0, 0, 0, 0>>
    /\ skipped_bytes = 0
    /\ wire \in UNION {Streams(k) : k \in 0..MaxMsgs}
    /\ writes = <<>>
    /\ last = [op |-> "init", err |-> "none", nread |-> 0, msg |-> None, channel |-> None,
               endplusone |-> 0, skipped |-> 0]
    /\ appended = <<>>
    /\ popped = <<>>

SpecDrain == InitDrain /\ [][Next]_vars

\* s is a sequence of whole encoded NoteOff messages and nothing else
IsStream(s) ==
    /\ Len(s) % NoteOff_LENGTH = 0
    /\ \A i \in DOMAIN s :
          IF i % NoteOff_LENGTH = 1 THEN s[i] \in 128..143 ELSE s[i] \in 0..127

\* C17: a receive() returns at most one message. When the ring holds k whole
\* valid messages and nothing else and the call reads nothing from the
\* transport, then for k > 0 the call returns the oldest buffered message
\* with its channel and leaves the other k - 1 messages, in order, in the
\* ring; for k = 0 it returns (None, None) and the ring stays empty. So k
\* successive calls return the k messages in arrival order, and every call
\* after them returns (None, None).
C17_InOrder ==
    [][(last'.op = "receive" /\ last'.nread = 0 /\ IsStream(RingContents(in_buf)))
          => /\ last'.err = "none"
             /\ last'.skipped = 0
             /\ IF RingLen(in_buf) = 0
                THEN /\ last'.msg = None /\ last'.channel = None
                     /\ RingLen(in_buf') = 0
                ELSE /\ last'.msg = Some([cls |-> "NoteOff",
                                          note |-> RingContents(in_buf)[2],
                                          velocity |-> RingContents(in_buf)[3]])
                     /\ last'.channel = Some(RingContents(in_buf)[1] % 16)
                     /\ RingContents(in_buf') =
                           SubSeq(RingContents(in_buf), NoteOff_LENGTH + 1, RingLen(in_buf))]_vars

\* two different whole messages were buffered; a call that read nothing
\* returned the older one and left the younger one in the ring
C17_Witness ==
    /\ last.op = "receive" /\ last.err = "none" /\ last.nread = 0
    /\ last.msg # None
    /\ RingLen(in_buf) = NoteOff_LENGTH
    /\ IsStream(RingContents(in_buf))
    /\ last.msg[1].note # RingContents(in_buf)[2]

\* a call on the drained ring returned (None, None)
C17_WitnessDrained ==
    /\ last.op = "receive" /\ last.err = "none" /\ last.nread = 0
    /\ last.msg = None /\ last.channel = None
    /\ RingLen(in_buf) = 0
    /\ in_buf.start = 6

====
